---- MODULE Spec2Model ----
(***************************************************************************)
(* Presupuesto Familiar API (src/main.py): the three MongoDB collections   *)
(* (family_config, budget_months, dismissed_alerts) and the HTTP handlers  *)
(* that read and write them.                                               *)
(*                                                                         *)
(* Conventions of the model                                                *)
(*  - a collection is the sequence of its documents in natural (insertion) *)
(*    order; find_one returns the first match, update_one changes the      *)
(*    first match in place, delete_one removes the first match;            *)
(*  - a document (a Python dict) is a function from its keys to values, so *)
(*    that a missing key is a key outside DOMAIN;                          *)
(*  - a dict whose iteration order matters (category_expenses) is the      *)
(*    sequence of its [cat_id, items] entries, cat_ids distinct;           *)
(*  - percentages are counted in tenths of a percent (52.0 is 520) and     *)
(*    amounts of money in whole units;                                     *)
(*  - datetime.now() is the single abstract value "now";                   *)
(*  - uuid4() never repeats: nuuid counts the handler runs that drew uuids *)
(*    and Uuid(n, k) is the k-th value the n-th such run drew;             *)
(*  - the id / created_at keys of month documents and the id of an alert   *)
(*    are left out: no handler reads them.                                 *)
(***************************************************************************)
EXTENDS Integers, Sequences, FiniteSets, TLC

VARIABLES
    family_config,      \* db.family_config: sequence of config documents
    budget_months,      \* db.budget_months: sequence of month documents
    dismissed_alerts,   \* db.dismissed_alerts: sequence of {alert_key, dismissed_at}
    nuuid,              \* number of handler runs that drew uuid4() values so far
    resp,               \* the response of the last completed request
    pc                  \* per request slot: where an in-flight handler stands

vars == <<family_config, budget_months, dismissed_alerts, nuuid, resp, pc>>

----------------------------------------------------------------------------
(* Bounds of the model *)

MaxUuid == 2           \* handler runs that may draw uuid4() values
MaxDismissed == 2      \* length the dismissal log may have when dismiss_alert appends

----------------------------------------------------------------------------
(* Python helpers *)

\* dict.get(k, default)
Get(d, k, default) == IF k \in DOMAIN d THEN d[k] ELSE default

\* {**doc, **upd}: the effect of {"$set": upd} on a document
SetFields(doc, upd) ==
    [k \in (DOMAIN doc) \cup (DOMAIN upd) |-> IF k \in DOMAIN upd THEN upd[k] ELSE doc[k]]

EmptyDict == [k \in {} |-> 0]

Abs(x) == IF x < 0 THEN -x ELSE x

Min(a, b) == IF a < b THEN a ELSE b

RECURSIVE SumSeq(_)
\* sum(s) for a list of numbers
SumSeq(s) == IF s = <<>> THEN 0 ELSE s[1] + SumSeq(Tail(s))

RECURSIVE SumValues(_)
\* sum(d.values())
SumValues(d) ==
    IF DOMAIN d = {} THEN 0
    ELSE LET k == CHOOSE x \in DOMAIN d : TRUE
         IN  d[k] + SumValues([x \in (DOMAIN d) \ {k} |-> d[x]])

\* cursor.to_list(n): at most the first n documents
ToList(s, n) == SubSeq(s, 1, Min(Len(s), n))

\* str(uuid.uuid4()): the k-th value drawn by the n-th handler run that draws any
Uuid(n, k) == "u" \o ToString(n) \o "." \o ToString(k)

Now == "now"

----------------------------------------------------------------------------
(* Family configuration *)

\* the percentage scale: 100 percent, and the 0.1 tolerance of update_family_config
Hundred == 1000
Tolerance == 1

\* the default document get_family_config builds, as the n-th drawing run
DefaultConfig(n) ==
    [ id |-> Uuid(n, 1),
      members |-> << [id |-> Uuid(n, 2), name |-> "Nata", percentage |-> 520],
                     [id |-> Uuid(n, 3), name |-> "Jon", percentage |-> 480] >>,
      categories |-> << [id |-> Uuid(n, 4), name |-> "Ninos"],
                        [id |-> Uuid(n, 5), name |-> "Casa"],
                        [id |-> Uuid(n, 6), name |-> "Transporte"],
                        [id |-> Uuid(n, 7), name |-> "Entretenimiento"] >>,
      bank_accounts |-> << [id |-> Uuid(n, 8), name |-> "Cuenta Principal"],
                           [id |-> Uuid(n, 9), name |-> "Ahorros"] >>,
      created_at |-> Now,
      updated_at |-> Now ]

\* get_family_config: the collection after the call (a default is inserted when
\* find_one finds nothing), the document returned, and the uuids drawn
GfcCollection(fc, n) == IF Len(fc) = 0 THEN <<DefaultConfig(n + 1)>> ELSE fc
GfcConfig(fc, n) == GfcCollection(fc, n)[1]
GfcUuid(fc, n) == IF Len(fc) = 0 THEN n + 1 ELSE n

\* update_one({}, {"$set": upd}, upsert=...) on db.family_config
UpdateOneConfig(fc, upd, upsert) ==
    IF Len(fc) = 0
    THEN IF upsert THEN <<upd>> ELSE fc
    ELSE <<SetFields(fc[1], upd)>> \o Tail(fc)

\* sum(m.get("percentage", 0) for m in members)
TotalPercentage(members) ==
    SumSeq([i \in 1..Len(members) |-> Get(members[i], "percentage", 0)])

\* the check of update_family_config on the member list it is given
PercentagesValid(members) == Abs(TotalPercentage(members) - Hundred) <= Tolerance

\* request bodies of PUT /family-config: a key that is absent is a parameter left None
ConfigUpdateInputs ==
    { [members |-> << [percentage |-> 1000] >>],
      [members |-> << [id |-> "a", name |-> "Ana", percentage |-> 600] >>],
      [categories |-> << [id |-> "c", name |-> "Renta"] >>] }

\* (name, percentage) of POST /family-config/member
MemberInputs == { <<"Nata", 100>> }

\* member_id of DELETE /family-config/member/{member_id}
MemberIdInputs(fc) ==
    {"ghost"} \cup
    (IF Len(fc) = 0 THEN {}
     ELSE LET ms == Get(fc[1], "members", <<>>)
          IN  { ms[i].id : i \in { j \in 1..Len(ms) : "id" \in DOMAIN ms[j] } })

get_family_config ==
    /\ family_config' = GfcCollection(family_config, nuuid)
    /\ nuuid' = GfcUuid(family_config, nuuid)
    /\ resp' = [op |-> "get_family_config", status |-> 200,
                body |-> GfcConfig(family_config, nuuid)]
    /\ UNCHANGED <<budget_months, dismissed_alerts, pc>>

update_family_config ==
    \E req \in ConfigUpdateInputs :
        IF "members" \in DOMAIN req /\ ~PercentagesValid(req.members)
        THEN /\ resp' = [op |-> "update_family_config", status |-> 400]
             /\ UNCHANGED <<family_config, budget_months, dismissed_alerts, nuuid, pc>>
        ELSE LET update_data == SetFields([updated_at |-> Now], req)
                 stored == UpdateOneConfig(family_config, update_data, TRUE)
             IN  /\ family_config' = GfcCollection(stored, nuuid)
                 /\ nuuid' = GfcUuid(stored, nuuid)
                 /\ resp' = [op |-> "update_family_config", status |-> 200,
                             body |-> GfcConfig(stored, nuuid)]
                 /\ UNCHANGED <<budget_months, dismissed_alerts, pc>>

add_family_member ==
    \E inp \in MemberInputs :
        LET fc == GfcCollection(family_config, nuuid)
            n == GfcUuid(family_config, nuuid)
            new_member == [id |-> Uuid(n + 1, 1), name |-> inp[1], percentage |-> inp[2]]
            members == Append(Get(fc[1], "members", <<>>), new_member)
        IN  /\ n < MaxUuid
            /\ family_config' =
                   UpdateOneConfig(fc, [members |-> members, updated_at |-> Now], FALSE)
            /\ nuuid' = n + 1
            /\ resp' = [op |-> "add_family_member", status |-> 200, body |-> new_member]
            /\ UNCHANGED <<budget_months, dismissed_alerts, pc>>

delete_family_member ==
    \E member_id \in MemberIdInputs(family_config) :
        LET fc == GfcCollection(family_config, nuuid)
            members == SelectSeq(Get(fc[1], "members", <<>>),
                                 LAMBDA m : Get(m, "id", "") # member_id)
        IN  /\ family_config' =
                   UpdateOneConfig(fc, [members |-> members, updated_at |-> Now], FALSE)
            /\ nuuid' = GfcUuid(family_config, nuuid)
            /\ resp' = [op |-> "delete_family_member", status |-> 200]
            /\ UNCHANGED <<budget_months, dismissed_alerts, pc>>

----------------------------------------------------------------------------
(* Month documents *)

SeedYear == 2024
ToListLimit == 1000
AnnualLimit == 12

month_names ==
    << "Enero", "Febrero", "Marzo", "Abril", "Mayo", "Junio", "Julio", "Agosto",
       "Septiembre", "Octubre", "Noviembre", "Diciembre" >>

\* ExpenseItem(**raw).model_dump(): budget and actual default to 0
ExpenseItem(raw) ==
    [name |-> raw.name, budget |-> Get(raw, "budget", 0), actual |-> Get(raw, "actual", 0)]

ExpenseItems(raws) == [i \in 1..Len(raws) |-> ExpenseItem(raws[i])]

\* Dict[str, List[ExpenseItem]] after validation
CategoryExpenses(raw) ==
    [i \in 1..Len(raw) |-> [cat_id |-> raw[i].cat_id, items |-> ExpenseItems(raw[i].items)]]

\* find({"year": year, "month": month}): positions of the matching documents
Matching(months, year, month) ==
    { i \in 1..Len(months) : months[i].year = year /\ months[i].month = month }

\* find_one({"year": year, "month": month}) finds a document
Exists(months, year, month) == Matching(months, year, month) # {}

FirstMatch(months, year, month) ==
    CHOOSE i \in Matching(months, year, month) :
        \A j \in Matching(months, year, month) : i <= j

\* update_one({"year": year, "month": month}, {"$set": upd})
UpdateOneMonth(months, year, month, upd) ==
    IF ~Exists(months, year, month) THEN months
    ELSE [months EXCEPT ![FirstMatch(months, year, month)] = SetFields(@, upd)]

\* delete_one({"year": year, "month": month})
DeleteOneMonth(months, year, month) ==
    IF ~Exists(months, year, month) THEN months
    ELSE LET k == FirstMatch(months, year, month)
         IN  SubSeq(months, 1, k - 1) \o SubSeq(months, k + 1, Len(months))

\* MonthData(**data.model_dump()).model_dump() of create_month
MonthData(data) ==
    [ year |-> data.year, month |-> data.month, month_name |-> data.month_name,
      income |-> Get(data, "income", EmptyDict),
      fixed_expenses |-> ExpenseItems(Get(data, "fixed_expenses", <<>>)),
      variable_expenses |-> ExpenseItems(Get(data, "variable_expenses", <<>>)),
      category_expenses |-> CategoryExpenses(Get(data, "category_expenses", <<>>)),
      bank_balances |-> EmptyDict,
      savings |-> Get(data, "savings", EmptyDict),
      updated_at |-> Now ]

\* the document create_year builds for month i
YearMonthData(config, year, i) ==
    LET members == Get(config, "members", <<>>)
        categories == Get(config, "categories", <<>>)
    IN  [ year |-> year, month |-> i, month_name |-> month_names[i],
          income |-> [id \in {members[k].id : k \in 1..Len(members)} |-> 0],
          fixed_expenses |-> <<>>,
          variable_expenses |-> <<>>,
          category_expenses |->
              [k \in 1..Len(categories) |-> [cat_id |-> categories[k].id, items |-> <<>>]],
          savings |-> EmptyDict,
          updated_at |-> Now ]

\* member["id"] of create_year raises KeyError on a member without an id
CreateYearRaises(config) ==
    LET members == Get(config, "members", <<>>)
    IN  \E k \in 1..Len(members) : "id" \notin DOMAIN members[k]

RECURSIVE CreateYearLoop(_, _, _, _)
\* the loop of create_year from month i on: <<collection, created_count>>
CreateYearLoop(months, config, year, i) ==
    IF i > 12 THEN <<months, 0>>
    ELSE IF Exists(months, year, i)
         THEN CreateYearLoop(months, config, year, i + 1)
         ELSE LET rest == CreateYearLoop(Append(months, YearMonthData(config, year, i)),
                                         config, year, i + 1)
              IN  <<rest[1], rest[2] + 1>>

\* one outcome of the random.randint draws of seed_sample_data; every draw of a
\* kind comes out the same within a call
RandomDraws ==
    { [income |-> -200, fixed |-> -20, variable |-> -100, escuela |-> -50, actividades |-> -50],
      [income |-> 200, fixed |-> 50, variable |-> -100, escuela |-> -50, actividades |-> 50] }

sample_fixed ==
    << [name |-> "Hipoteca", budget |-> 1500, actual |-> 1500],
       [name |-> "Servicios", budget |-> 200, actual |-> 0],
       [name |-> "Internet", budget |-> 60, actual |-> 60],
       [name |-> "Seguros", budget |-> 150, actual |-> 150] >>

sample_variable ==
    << [name |-> "Restaurantes", budget |-> 300, actual |-> 0],
       [name |-> "Supermercado", budget |-> 600, actual |-> 0],
       [name |-> "Ropa", budget |-> 150, actual |-> 0] >>

\* c["name"].lower() == "ninos" (the n-tilde of the source is written n here)
IsNinos(name) == name \in {"Ninos", "ninos", "NINOS"}

\* the members / categories seed_sample_data falls back to, as the n-th drawing run
SeedMembers(n) ==
    << [id |-> Uuid(n, 1), name |-> "Nata", percentage |-> 520],
       [id |-> Uuid(n, 2), name |-> "Jon", percentage |-> 480] >>

SeedCategories(n) ==
    << [id |-> Uuid(n, 3), name |-> "Ninos"],
       [id |-> Uuid(n, 4), name |-> "Casa"] >>

\* member["percentage"] / member["id"] of seed_sample_data raise KeyError
SeedRaises(members) ==
    \E k \in 1..Len(members) : {"id", "percentage"} \ DOMAIN members[k] # {}

\* the document seed_sample_data builds for month i
SeedMonthData(members, categories, i, r) ==
    LET ninos == { k \in 1..Len(categories) : IsNinos(categories[k].name) }
        first == CHOOSE k \in ninos : \A j \in ninos : k <= j
        base(id) ==
            LET ks == { k \in 1..Len(members) : members[k].id = id }
                last == CHOOSE k \in ks : \A j \in ks : j <= k
            IN  IF members[last].percentage > 500 THEN 4500 ELSE 3500
    IN  [ year |-> SeedYear, month |-> i, month_name |-> month_names[i],
          income |-> [id \in {members[k].id : k \in 1..Len(members)} |-> base(id) + r.income],
          fixed_expenses |->
              [k \in 1..Len(sample_fixed) |->
                  [sample_fixed[k] EXCEPT !.actual = sample_fixed[k].budget + r.fixed]],
          variable_expenses |->
              [k \in 1..Len(sample_variable) |->
                  [sample_variable[k] EXCEPT !.actual = sample_variable[k].budget + r.variable]],
          category_expenses |->
              IF ninos = {} THEN <<>>
              ELSE << [cat_id |-> categories[first].id,
                       items |-> << [name |-> "Escuela", budget |-> 500,
                                     actual |-> 500 + r.escuela],
                                    [name |-> "Actividades", budget |-> 200,
                                     actual |-> 200 + r.actividades] >>] >>,
          savings |-> EmptyDict,
          updated_at |-> Now ]

RECURSIVE SeedLoop(_, _, _, _, _)
\* the loop of seed_sample_data from month i on: update the month or insert it
SeedLoop(months, members, categories, i, r) ==
    IF i > 12 THEN months
    ELSE LET month_data == SeedMonthData(members, categories, i, r)
         IN  SeedLoop(IF Exists(months, SeedYear, i)
                      THEN UpdateOneMonth(months, SeedYear, i, month_data)
                      ELSE Append(months, month_data),
                      members, categories, i + 1, r)

----------------------------------------------------------------------------
(* Requests on months *)

Years == {2024}
MonthInputs == {1, 2, 13}
UpdateMonthInputs == {1}

MonthName(month) == IF month \in 1..12 THEN month_names[month] ELSE "Extra"

\* the ids a client reads from the stored configuration
MemberIds(fc) ==
    IF Len(fc) = 0 THEN <<>>
    ELSE LET ms == SelectSeq(Get(fc[1], "members", <<>>), LAMBDA m : "id" \in DOMAIN m)
         IN  [k \in 1..Len(ms) |-> ms[k].id]

CategoryIds(fc) ==
    IF Len(fc) = 0 THEN <<>>
    ELSE LET cs == Get(fc[1], "categories", <<>>) IN [k \in 1..Len(cs) |-> cs[k].id]

\* income of the worked example: 4500 for the first member, 3500 for the second
ExampleIncome(fc) ==
    LET ids == MemberIds(fc)
    IN  [id \in {ids[k] : k \in 1..Min(2, Len(ids))} |->
            IF id = ids[1] THEN 4500 ELSE 3500]

\* income that also names an id no member has
GhostIncome(fc) ==
    LET ids == MemberIds(fc)
    IN  [id \in {"ghost"} \cup {ids[k] : k \in 1..Min(1, Len(ids))} |->
            IF id = "ghost" THEN 100 ELSE 4500]

\* bodies of POST /months, less year / month / month_name
CreateInputs(fc) ==
    { [ income |-> ExampleIncome(fc),
        fixed_expenses |-> << [name |-> "Hipoteca", budget |-> 1500, actual |-> 1500] >> ],
      [ income |-> GhostIncome(fc),
        fixed_expenses |-> << [name |-> "Renta", budget |-> 1000, actual |-> 1050] >>,
        variable_expenses |-> << [name |-> "Comida", budget |-> 100, actual |-> 300],
                                 [name |-> "Adhoc", actual |-> 50] >>,
        category_expenses |->
            << [cat_id |-> IF Len(CategoryIds(fc)) = 0 THEN "zz" ELSE CategoryIds(fc)[1],
                items |-> << [name |-> "Escuela", budget |-> 50, actual |-> 60] >>] >> ] }

\* the POST /months requests issued: either body for month 1, the body with
\* alerts for month 2, the worked example for month 13
CreateRequests(fc) ==
    { rq \in MonthInputs \X CreateInputs(fc) :
        \/ rq[1] = 1
        \/ rq[1] = 2 /\ "category_expenses" \in DOMAIN rq[2]
        \/ rq[1] = 13 /\ "category_expenses" \notin DOMAIN rq[2] }

\* bodies of PUT /months/{year}/{month}: an absent key is a field left None
UpdateInputs(fc) ==
    { [ income |-> GhostIncome(fc), bank_balances |-> [acct \in {"b"} |-> 10],
        variable_expenses |-> << [name |-> "Ocio", budget |-> 100, actual |-> 150],
                                 [name |-> "Ocio", budget |-> 30, actual |-> 80] >> ] }

\* as UpdateData, without the filter on None: a field the request leaves out is
\* written empty
UpdateDataUnfiltered(req) ==
    [k \in {"income", "fixed_expenses", "variable_expenses", "category_expenses",
            "bank_balances", "savings"} |->
        IF k \notin DOMAIN req THEN <<>>
        ELSE CASE k \in {"fixed_expenses", "variable_expenses"} -> ExpenseItems(req[k])
               [] k = "category_expenses" -> CategoryExpenses(req[k])
               [] OTHER -> req[k]]

\* data.model_dump() of MonthDataUpdate, less the None fields
UpdateData(req) ==
    [k \in DOMAIN req |->
        CASE k \in {"fixed_expenses", "variable_expenses"} -> ExpenseItems(req[k])
          [] k = "category_expenses" -> CategoryExpenses(req[k])
          [] OTHER -> req[k]]

create_month ==
    \E year \in Years, rq \in CreateRequests(family_config) :
        LET month == rq[1]
            data == SetFields(rq[2], [year |-> year, month |-> month,
                                      month_name |-> MonthName(month)])
        IN  IF Exists(budget_months, year, month)
            THEN /\ resp' = [op |-> "create_month", status |-> 400]
                 /\ UNCHANGED <<family_config, budget_months, dismissed_alerts, nuuid, pc>>
            ELSE /\ budget_months' = Append(budget_months, MonthData(data))
                 /\ resp' = [op |-> "create_month", status |-> 200, body |-> MonthData(data)]
                 /\ UNCHANGED <<family_config, dismissed_alerts, nuuid, pc>>

update_month ==
    \E year \in Years, month \in UpdateMonthInputs, req \in UpdateInputs(family_config) :
        LET update_data == SetFields(UpdateData(req), [updated_at |-> Now])
        IN  IF ~Exists(budget_months, year, month)
            THEN /\ resp' = [op |-> "update_month", status |-> 404,
                             year |-> year, month |-> month, req |-> req]
                 /\ UNCHANGED <<family_config, budget_months, dismissed_alerts, nuuid, pc>>
            ELSE /\ budget_months' = UpdateOneMonth(budget_months, year, month, update_data)
                 /\ resp' = [op |-> "update_month", status |-> 200,
                             year |-> year, month |-> month, req |-> req,
                             body |-> budget_months'[FirstMatch(budget_months, year, month)]]
                 /\ UNCHANGED <<family_config, dismissed_alerts, nuuid, pc>>

delete_month ==
    \E year \in Years, month \in UpdateMonthInputs :
        IF ~Exists(budget_months, year, month)
        THEN /\ resp' = [op |-> "delete_month", status |-> 404]
             /\ UNCHANGED <<family_config, budget_months, dismissed_alerts, nuuid, pc>>
        ELSE /\ budget_months' = DeleteOneMonth(budget_months, year, month)
             /\ resp' = [op |-> "delete_month", status |-> 200]
             /\ UNCHANGED <<family_config, dismissed_alerts, nuuid, pc>>

create_year ==
    \E year \in Years :
        LET fc == GfcCollection(family_config, nuuid)
            config == fc[1]
            missing == \E i \in 1..12 : ~Exists(budget_months, year, i)
            done == CreateYearLoop(budget_months, config, year, 1)
        IN  /\ family_config' = fc
            /\ nuuid' = GfcUuid(family_config, nuuid)
            /\ IF missing /\ CreateYearRaises(config)
               THEN /\ resp' = [op |-> "create_year", status |-> 500]
                    /\ UNCHANGED budget_months
               ELSE /\ budget_months' = done[1]
                    /\ resp' = [op |-> "create_year", status |-> 200, created |-> done[2]]
            /\ UNCHANGED <<dismissed_alerts, pc>>

seed_sample_data ==
    \E r \in RandomDraws :
        LET fc == GfcCollection(family_config, nuuid)
            n == GfcUuid(family_config, nuuid)
            config == fc[1]
            draws == Get(config, "members", <<>>) = <<>> \/ Get(config, "categories", <<>>) = <<>>
            members == IF Get(config, "members", <<>>) = <<>>
                       THEN SeedMembers(n + 1) ELSE config.members
            categories == IF Get(config, "categories", <<>>) = <<>>
                          THEN SeedCategories(n + 1) ELSE config.categories
        IN  /\ draws => n < MaxUuid
            /\ family_config' =
                   UpdateOneConfig(fc, [members |-> members, categories |-> categories,
                                        updated_at |-> Now], TRUE)
            /\ nuuid' = IF draws THEN n + 1 ELSE n
            /\ IF SeedRaises(members)
               THEN /\ resp' = [op |-> "seed_sample_data", status |-> 500]
                    /\ UNCHANGED budget_months
               ELSE /\ budget_months' = SeedLoop(budget_months, members, categories, 1, r)
                    /\ resp' = [op |-> "seed_sample_data", status |-> 200]
            /\ UNCHANGED <<dismissed_alerts, pc>>

----------------------------------------------------------------------------
(* Annual summary and export *)

RECURSIVE SortByMonth(_)
\* .sort("month", 1): ascending by month, equal months in natural order
SortByMonth(docs) ==
    IF docs = <<>> THEN <<>>
    ELSE LET rest == SortByMonth(SubSeq(docs, 1, Len(docs) - 1))
             x == docs[Len(docs)]
             before == SelectSeq(rest, LAMBDA d : d.month <= x.month)
             after == SelectSeq(rest, LAMBDA d : d.month > x.month)
         IN  before \o <<x>> \o after

\* find({"year": year}).sort("month", 1).to_list(12)
YearMonths(months, year) ==
    ToList(SortByMonth(SelectSeq(months, LAMBDA d : d.year = year)), AnnualLimit)

\* sum(e.get("actual", 0) for e in expenses)
SumActual(expenses) == SumSeq([i \in 1..Len(expenses) |-> Get(expenses[i], "actual", 0)])

month_income(m) == SumValues(Get(m, "income", EmptyDict))
month_fixed(m) == SumActual(Get(m, "fixed_expenses", <<>>))
month_variable(m) == SumActual(Get(m, "variable_expenses", <<>>))
\* as month_category, with the category lists left out of the month's expenses
month_category_left_out(m) == 0

month_category(m) ==
    LET ce == Get(m, "category_expenses", <<>>)
    IN  SumSeq([i \in 1..Len(ce) |-> SumActual(ce[i].items)])
month_expenses(m) == month_fixed(m) + month_variable(m) + month_category(m)

\* one entry of monthly_summaries
MonthSummary(m) ==
    [ month |-> m.month, month_name |-> m.month_name,
      income |-> month_income(m),
      expenses |-> month_expenses(m),
      savings |-> month_income(m) - month_expenses(m),
      fixed_expenses |-> month_fixed(m),
      variable_expenses |-> month_variable(m),
      category_expenses |-> month_category(m),
      bank_balances |-> Get(m, "bank_balances", EmptyDict) ]

\* next((mem for mem in members if mem["id"] == member_id), None): the position
\* of the member found, 0 for None
FindMember(members, member_id) ==
    LET ks == { k \in 1..Len(members) : members[k].id = member_id }
    IN  IF ks = {} THEN 0 ELSE CHOOSE k \in ks : \A j \in ks : k <= j

\* the scan of FindMember reads mem["id"] of a member that has none
FindMemberRaises(members, member_id) ==
    \E k \in 1..Len(members) :
        /\ "id" \notin DOMAIN members[k]
        /\ \A j \in 1..(k - 1) : "id" \in DOMAIN members[j] /\ members[j].id # member_id

\* get_annual_summary raises KeyError: m["name"] when member_contributions is
\* initialised, or mem["id"] while an income entry is attributed
SummaryRaises(config, months) ==
    LET members == Get(config, "members", <<>>)
    IN  \/ \E k \in 1..Len(members) : "name" \notin DOMAIN members[k]
        \/ \E i \in 1..Len(months) :
              \E id \in DOMAIN Get(months[i], "income", EmptyDict) :
                  FindMemberRaises(members, id)

RECURSIVE SumIncomeOf(_, _, _)
\* what the attribution loop adds to member_contributions[name] for one month
SumIncomeOf(members, income, name) ==
    IF DOMAIN income = {} THEN 0
    ELSE LET id == CHOOSE x \in DOMAIN income : TRUE
             k == FindMember(members, id)
             rest == SumIncomeOf(members, [x \in (DOMAIN income) \ {id} |-> income[x]], name)
         IN  IF k # 0 /\ members[k].name = name THEN income[id] + rest ELSE rest

\* member_contributions: every configured name at 0, plus the attributed income
MemberContributions(config, months) ==
    LET members == Get(config, "members", <<>>)
    IN  [name \in {members[k].name : k \in 1..Len(members)} |->
            SumSeq([i \in 1..Len(months) |->
                      SumIncomeOf(members, Get(months[i], "income", EmptyDict), name)])]

\* next((c["name"] for c in categories if c["id"] == cat_id), "Otros")
CategoryName(config, cat_id) ==
    LET cs == Get(config, "categories", <<>>)
        ks == { k \in 1..Len(cs) : cs[k].id = cat_id }
    IN  IF ks = {} THEN "Otros" ELSE cs[CHOOSE k \in ks : \A j \in ks : k <= j].name

\* as CategoryWrites, keyed by the category id and not by its display name
CategoryWritesById(config, entries) ==
    [i \in 1..Len(entries) |->
        [label |-> entries[i].cat_id, amount |-> SumActual(entries[i].items)]]

\* the writes of the loop over m["category_expenses"].items(): cat_total added
\* under cat_name
CategoryWrites(config, entries) ==
    [i \in 1..Len(entries) |->
        [label |-> CategoryName(config, entries[i].cat_id),
         amount |-> SumActual(entries[i].items)]]

\* the writes of the loops over fixed_expenses and variable_expenses: the actual
\* of the item added under its name
ItemWrites(expenses) ==
    [i \in 1..Len(expenses) |->
        [label |-> Get(expenses[i], "name", "Otros"),
         amount |-> Get(expenses[i], "actual", 0)]]

\* the additions one month makes to expense_by_category, in the order made
MonthWrites(m, config) ==
    CategoryWrites(config, Get(m, "category_expenses", <<>>))
    \o ItemWrites(Get(m, "fixed_expenses", <<>>))
    \o ItemWrites(Get(m, "variable_expenses", <<>>))

\* what a list of additions adds under one label
LabelTotal(writes, label) ==
    SumSeq([j \in 1..Len(writes) |->
              IF writes[j].label = label THEN writes[j].amount ELSE 0])

\* expense_by_category after the loop over months: every addition is
\* d[label] = d.get(label, 0) + amount on the one dict, so a label holds the sum
\* of all the amounts added under it
ExpenseByCategory(config, months) ==
    LET labels == UNION { { MonthWrites(months[i], config)[j].label :
                              j \in 1..Len(MonthWrites(months[i], config)) } :
                          i \in 1..Len(months) }
    IN  [label \in labels |->
            SumSeq([i \in 1..Len(months) |->
                      LabelTotal(MonthWrites(months[i], config), label)])]

\* the body get_annual_summary returns (savings_projection, a quotient of floats,
\* is not part of the model)
AnnualSummary(year, months, config) ==
    LET total_income == SumSeq([i \in 1..Len(months) |-> month_income(months[i])])
        total_expenses == SumSeq([i \in 1..Len(months) |-> month_expenses(months[i])])
    IN  [ year |-> year,
          total_income |-> total_income,
          total_expenses |-> total_expenses,
          total_savings |-> total_income - total_expenses,
          monthly_data |-> [i \in 1..Len(months) |-> MonthSummary(months[i])],
          expense_by_category |-> ExpenseByCategory(config, months),
          member_contributions |-> MemberContributions(config, months) ]

\* the rows export_excel writes to the sheet, one per month
ExcelRows(months) ==
    [i \in 1..Len(months) |->
        LET m == months[i]
            income == SumValues(Get(m, "income", EmptyDict))
            fixed == SumActual(Get(m, "fixed_expenses", <<>>))
            variable == SumActual(Get(m, "variable_expenses", <<>>))
            ce == Get(m, "category_expenses", <<>>)
            category == SumSeq([j \in 1..Len(ce) |-> SumActual(ce[j].items)])
            total_exp == fixed + variable + category
        IN  [ month_name |-> Get(m, "month_name", ""), income |-> income,
              total_exp |-> total_exp, savings |-> income - total_exp ]]

QueryYears == {2024, 2025}

get_annual_summary ==
    \E year \in QueryYears :
        LET months == YearMonths(budget_months, year)
            config == GfcConfig(family_config, nuuid)
        IN  /\ family_config' = GfcCollection(family_config, nuuid)
            /\ nuuid' = GfcUuid(family_config, nuuid)
            /\ resp' = IF months = <<>>
                       THEN [op |-> "get_annual_summary", year |-> year, status |-> 404]
                       ELSE IF SummaryRaises(config, months)
                       THEN [op |-> "get_annual_summary", year |-> year, status |-> 500]
                       ELSE [op |-> "get_annual_summary", year |-> year, status |-> 200,
                             body |-> AnnualSummary(year, months, config)]
            /\ UNCHANGED <<budget_months, dismissed_alerts, pc>>

export_excel ==
    \E year \in QueryYears :
        LET months == YearMonths(budget_months, year)
        IN  /\ resp' = IF months = <<>>
                       THEN [op |-> "export_excel", year |-> year, status |-> 404]
                       ELSE [op |-> "export_excel", year |-> year, status |-> 200,
                             body |-> ExcelRows(months)]
            /\ UNCHANGED <<family_config, budget_months, dismissed_alerts, nuuid, pc>>

----------------------------------------------------------------------------
(* Alerts *)

\* f"{year}-{month_num}-{tag}-{name}"
AlertKey(year, month_num, tag, name) ==
    ToString(year) \o "-" \o ToString(month_num) \o "-" \o tag \o "-" \o name

\* as OverBudget, without the test that a budget is set
OverBudgetAnyBudget(exp) == Get(exp, "actual", 0) > Get(exp, "budget", 0)

\* exp.get("actual", 0) > exp.get("budget", 0) and exp.get("budget", 0) > 0
OverBudget(exp) ==
    Get(exp, "actual", 0) > Get(exp, "budget", 0) /\ Get(exp, "budget", 0) > 0

\* the dict appended to alerts (less id and the float percentage_over)
Alert(m, tag, category, exp) ==
    [ alert_key |-> AlertKey(m.year, m.month, tag, exp.name),
      month |-> m.month_name, year |-> m.year, month_num |-> m.month,
      category |-> category, item_name |-> exp.name,
      budget |-> Get(exp, "budget", 0), actual |-> Get(exp, "actual", 0),
      overage |-> Get(exp, "actual", 0) - Get(exp, "budget", 0) ]

\* the over-budget items of one list, in list order
ListAlerts(m, tag, category, expenses) ==
    LET over == SelectSeq(expenses, OverBudget)
    IN  [i \in 1..Len(over) |-> Alert(m, tag, category, over[i])]

RECURSIVE CategoryAlerts(_, _, _)
\* the loop over m["category_expenses"].items()
CategoryAlerts(m, config, entries) ==
    IF entries = <<>> THEN <<>>
    ELSE ListAlerts(m, entries[1].cat_id, CategoryName(config, entries[1].cat_id),
                    entries[1].items)
         \o CategoryAlerts(m, config, Tail(entries))

\* what one pass of the loop body over a month finds, before the dismissal test
MonthAlerts(m, config) ==
    ListAlerts(m, "fixed", "Gastos Fijos", Get(m, "fixed_expenses", <<>>))
    \o ListAlerts(m, "variable", "Gastos Variables", Get(m, "variable_expenses", <<>>))
    \o CategoryAlerts(m, config, Get(m, "category_expenses", <<>>))

RECURSIVE WouldBeAlerts(_, _)
\* the loop over months, in the order find({}) returns them
WouldBeAlerts(months, config) ==
    IF months = <<>> THEN <<>>
    ELSE MonthAlerts(months[1], config) \o WouldBeAlerts(Tail(months), config)

\* as DismissedKeys, reading one dismissal (find_one) and not the whole log
DismissedKeysFirstOnly(dismissed) ==
    IF Len(dismissed) = 0 THEN {} ELSE { dismissed[1].alert_key }

\* set(d.get("alert_key") for d in dismissed)
DismissedKeys(dismissed) ==
    { dismissed[i].alert_key : i \in 1..Len(ToList(dismissed, ToListLimit)) }

\* as SortedByOverage, by an ascending sort that is then reversed: equal keys
\* come out in reverse order
SortedThenReversed(alerts) ==
    LET n == Len(alerts)
        place == [i \in 1..n |->
                    1 + Cardinality({ j \in 1..n :
                            \/ alerts[j].overage > alerts[i].overage
                            \/ alerts[j].overage = alerts[i].overage /\ j > i })]
    IN  [r \in 1..n |-> alerts[CHOOSE i \in 1..n : place[i] = r]]

\* sorted(alerts, key=overage, reverse=True): descending, equal keys keep their
\* order. The place of alerts[i] in the result is one more than the number of
\* alerts that come before it: those of larger overage, and the earlier ones of
\* equal overage.
SortedByOverage(alerts) ==
    LET n == Len(alerts)
        place == [i \in 1..n |->
                    1 + Cardinality({ j \in 1..n :
                            \/ alerts[j].overage > alerts[i].overage
                            \/ alerts[j].overage = alerts[i].overage /\ j < i })]
    IN  [r \in 1..n |-> alerts[CHOOSE i \in 1..n : place[i] = r]]

\* the list get_alerts returns
Alerts(months, config, dismissed) ==
    LET dismissed_keys == DismissedKeys(dismissed)
    IN  CHOOSE sorted \in
            { SortedByOverage(alerts) :
                alerts \in { SelectSeq(WouldBeAlerts(ToList(months, ToListLimit), config),
                                       LAMBDA a : a.alert_key \notin dismissed_keys) } } : TRUE

\* as ClearedKeys, leaving the loops after the first key
ClearedKeysFirstOnly(dismissed, keys) ==
    IF Len(keys) = 0 \/ \E i \in 1..Len(dismissed) : dismissed[i].alert_key = keys[1]
    THEN <<>>
    ELSE <<keys[1]>>

\* as ClearedKeys, without the find_one that looks the key up in the log
ClearedKeysUnchecked(dismissed, keys) == keys

\* the loops of clear_all_alerts over the would-be keys, in encounter order: a
\* key is inserted when find_one does not find it, that is when it is neither in
\* the log at the start nor inserted earlier in the same run. The keys inserted:
ClearedKeys(dismissed, keys) ==
    LET logged == { dismissed[i].alert_key : i \in 1..Len(dismissed) }
        fresh == { i \in 1..Len(keys) : /\ keys[i] \notin logged
                                        /\ \A j \in 1..(i - 1) : keys[j] # keys[i] }
    IN  [k \in 1..Cardinality(fresh) |->
            keys[CHOOSE i \in fresh : Cardinality({ j \in fresh : j <= i }) = k]]

\* alert_key of POST /alerts/dismiss
DismissInputs ==
    { AlertKey(2024, 1, "fixed", "Renta"), AlertKey(2024, 1, "variable", "Ocio") }

get_alerts ==
    /\ family_config' = GfcCollection(family_config, nuuid)
    /\ nuuid' = GfcUuid(family_config, nuuid)
    /\ resp' = [op |-> "get_alerts", status |-> 200,
                body |-> Alerts(budget_months, GfcConfig(family_config, nuuid),
                                dismissed_alerts)]
    /\ UNCHANGED <<budget_months, dismissed_alerts, pc>>

dismiss_alert ==
    \E alert_key \in DismissInputs :
        /\ Len(dismissed_alerts) < MaxDismissed
        /\ dismissed_alerts' =
               Append(dismissed_alerts, [alert_key |-> alert_key, dismissed_at |-> Now])
        /\ resp' = [op |-> "dismiss_alert", status |-> 200, alert_key |-> alert_key]
        /\ UNCHANGED <<family_config, budget_months, nuuid, pc>>

clear_all_alerts ==
    \E would \in { WouldBeAlerts(ToList(budget_months, ToListLimit),
                                 GfcConfig(family_config, nuuid)) } :
    \E cleared \in { ClearedKeys(dismissed_alerts,
                                 [i \in 1..Len(would) |-> would[i].alert_key]) } :
        /\ family_config' = GfcCollection(family_config, nuuid)
        /\ nuuid' = GfcUuid(family_config, nuuid)
        /\ dismissed_alerts' =
               dismissed_alerts \o [k \in 1..Len(cleared) |->
                                       [alert_key |-> cleared[k], dismissed_at |-> Now]]
        /\ resp' = [op |-> "clear_all_alerts", status |-> 200,
                    dismissed_count |-> Len(cleared)]
        /\ UNCHANGED <<budget_months, pc>>

----------------------------------------------------------------------------
(* Concurrent requests: a handler gives up control at every await, that is at  *)
(* every database call, and runs without interruption between two awaits.     *)
(* Each request slot runs one handler at a time; pc[p] holds its position and  *)
(* its local variables.                                                        *)

Slots == {1, 2}
YearSlots == {1}

\* the requests the concurrent slots issue
ConcMonthInputs == {1}
ConcCreateInputs(fc) == { body \in CreateInputs(fc) : DOMAIN body = {"income", "fixed_expenses"} }
ConcDraws == { r \in RandomDraws : r.fixed > 0 }

IdleAt == [at |-> "idle"]

Idle == [p \in Slots |-> IdleAt]

\* what a request answers once get_family_config has returned config: the
\* configuration when the request is GET /family-config, nothing yet otherwise
ConfigResp(local, config, answered) ==
    IF local.ret = "get_family_config"
    THEN [op |-> "get_family_config", status |-> 200, body |-> config]
    ELSE answered

\* where a handler goes on once get_family_config has returned config
AfterConfig(local, config, n) ==
    IF local.ret = "get_family_config" THEN IdleAt
    ELSE IF local.ret = "create_year"
    THEN [at |-> "cy_find", year |-> local.year, i |-> 1, config |-> config, created |-> 0]
    ELSE [at |-> "seed_config", r |-> local.r,
          members |-> IF Get(config, "members", <<>>) = <<>>
                      THEN SeedMembers(n + 1) ELSE config.members,
          categories |-> IF Get(config, "categories", <<>>) = <<>>
                         THEN SeedCategories(n + 1) ELSE config.categories]

AfterConfigUuid(local, config, n) ==
    IF /\ local.ret = "seed_sample_data"
       /\ (Get(config, "members", <<>>) = <<>> \/ Get(config, "categories", <<>>) = <<>>)
    THEN n + 1 ELSE n

\* create_month, up to the await of find_one
cm_find(p) ==
    \E year \in Years, month \in ConcMonthInputs,
       body \in ConcCreateInputs(family_config) :
        LET data == SetFields(body, [year |-> year, month |-> month,
                                     month_name |-> MonthName(month)])
        IN  /\ pc[p].at = "idle"
            /\ IF Exists(budget_months, year, month)
               THEN /\ resp' = [op |-> "create_month", status |-> 400]
                    /\ UNCHANGED pc
               ELSE /\ pc' = [pc EXCEPT ![p] = [at |-> "cm_insert", doc |-> MonthData(data)]]
                    /\ UNCHANGED resp
            /\ UNCHANGED <<family_config, budget_months, dismissed_alerts, nuuid>>

\* create_month, the await of insert_one and the return
cm_insert(p) ==
    /\ pc[p].at = "cm_insert"
    /\ budget_months' = Append(budget_months, pc[p].doc)
    /\ resp' = [op |-> "create_month", status |-> 200, body |-> pc[p].doc]
    /\ pc' = [pc EXCEPT ![p] = IdleAt]
    /\ UNCHANGED <<family_config, dismissed_alerts, nuuid>>

\* delete_month: one database call
dm_delete(p) ==
    \E year \in Years, month \in UpdateMonthInputs :
        /\ pc[p].at = "idle"
        /\ budget_months' = DeleteOneMonth(budget_months, year, month)
        /\ resp' = [op |-> "delete_month",
                    status |-> IF Exists(budget_months, year, month) THEN 200 ELSE 404]
        /\ UNCHANGED <<family_config, dismissed_alerts, nuuid, pc>>

\* create_year / seed_sample_data enter get_family_config
cy_start(p) ==
    \E year \in Years :
        /\ pc[p].at = "idle"
        /\ pc' = [pc EXCEPT ![p] = [at |-> "gfc_find", ret |-> "create_year", year |-> year]]
        /\ UNCHANGED <<family_config, budget_months, dismissed_alerts, nuuid, resp>>

seed_start(p) ==
    \E r \in ConcDraws :
        /\ pc[p].at = "idle"
        /\ pc' = [pc EXCEPT ![p] = [at |-> "gfc_find", ret |-> "seed_sample_data", r |-> r]]
        /\ UNCHANGED <<family_config, budget_months, dismissed_alerts, nuuid, resp>>

\* GET /family-config enters get_family_config
gfc_start(p) ==
    /\ pc[p].at = "idle"
    /\ pc' = [pc EXCEPT ![p] = [at |-> "gfc_find", ret |-> "get_family_config"]]
    /\ UNCHANGED <<family_config, budget_months, dismissed_alerts, nuuid, resp>>

\* get_family_config, the await of find_one; the default is built when it finds nothing
gfc_find(p) ==
    /\ pc[p].at = "gfc_find"
    /\ IF Len(family_config) = 0
       THEN /\ pc' = [pc EXCEPT ![p] = SetFields(pc[p], [at |-> "gfc_insert",
                                                         default_config |-> DefaultConfig(nuuid + 1)])]
            /\ nuuid' = nuuid + 1
            /\ UNCHANGED resp
       ELSE /\ pc' = [pc EXCEPT ![p] = AfterConfig(pc[p], family_config[1], nuuid)]
            /\ nuuid' = AfterConfigUuid(pc[p], family_config[1], nuuid)
            /\ resp' = ConfigResp(pc[p], family_config[1], resp)
    /\ UNCHANGED <<family_config, budget_months, dismissed_alerts>>

\* get_family_config, the await of insert_one and the return of the default
gfc_insert(p) ==
    /\ pc[p].at = "gfc_insert"
    /\ family_config' = Append(family_config, pc[p].default_config)
    /\ pc' = [pc EXCEPT ![p] = AfterConfig(pc[p], pc[p].default_config, nuuid)]
    /\ nuuid' = AfterConfigUuid(pc[p], pc[p].default_config, nuuid)
    /\ resp' = ConfigResp(pc[p], pc[p].default_config, resp)
    /\ UNCHANGED <<budget_months, dismissed_alerts>>

\* create_year, one turn of the loop up to the await of find_one
cy_find(p) ==
    /\ pc[p].at = "cy_find"
    /\ IF pc[p].i > 12
       THEN /\ resp' = [op |-> "create_year", status |-> 200, created |-> pc[p].created]
            /\ pc' = [pc EXCEPT ![p] = IdleAt]
       ELSE IF Exists(budget_months, pc[p].year, pc[p].i)
       THEN /\ pc' = [pc EXCEPT ![p].i = @ + 1]
            /\ UNCHANGED resp
       ELSE IF CreateYearRaises(pc[p].config)
       THEN /\ resp' = [op |-> "create_year", status |-> 500]
            /\ pc' = [pc EXCEPT ![p] = IdleAt]
       ELSE /\ pc' = [pc EXCEPT ![p].at = "cy_insert"]
            /\ UNCHANGED resp
    /\ UNCHANGED <<family_config, budget_months, dismissed_alerts, nuuid>>

\* create_year, the await of insert_one
cy_insert(p) ==
    /\ pc[p].at = "cy_insert"
    /\ budget_months' =
           Append(budget_months, YearMonthData(pc[p].config, pc[p].year, pc[p].i))
    /\ pc' = [pc EXCEPT ![p].at = "cy_find", ![p].i = @ + 1, ![p].created = @ + 1]
    /\ UNCHANGED <<family_config, dismissed_alerts, nuuid, resp>>

\* seed_sample_data, the await of update_one on the configuration
seed_config(p) ==
    /\ pc[p].at = "seed_config"
    /\ family_config' =
           UpdateOneConfig(family_config,
                           [members |-> pc[p].members, categories |-> pc[p].categories,
                            updated_at |-> Now], TRUE)
    /\ IF SeedRaises(pc[p].members)
       THEN /\ resp' = [op |-> "seed_sample_data", status |-> 500]
            /\ pc' = [pc EXCEPT ![p] = IdleAt]
       ELSE /\ pc' = [pc EXCEPT ![p] = SetFields(pc[p], [at |-> "seed_find", i |-> 1])]
            /\ UNCHANGED resp
    /\ UNCHANGED <<budget_months, dismissed_alerts, nuuid>>

\* seed_sample_data, one turn of the loop up to the await of find_one
seed_find(p) ==
    /\ pc[p].at = "seed_find"
    /\ IF pc[p].i > 12
       THEN /\ resp' = [op |-> "seed_sample_data", status |-> 200]
            /\ pc' = [pc EXCEPT ![p] = IdleAt]
       ELSE /\ pc' = [pc EXCEPT ![p].at = IF Exists(budget_months, SeedYear, pc[p].i)
                                          THEN "seed_update" ELSE "seed_insert"]
            /\ UNCHANGED resp
    /\ UNCHANGED <<family_config, budget_months, dismissed_alerts, nuuid>>

\* seed_sample_data, the await of update_one on the month
seed_update(p) ==
    /\ pc[p].at = "seed_update"
    /\ budget_months' =
           UpdateOneMonth(budget_months, SeedYear, pc[p].i,
                          SeedMonthData(pc[p].members, pc[p].categories, pc[p].i, pc[p].r))
    /\ pc' = [pc EXCEPT ![p].at = "seed_find", ![p].i = @ + 1]
    /\ UNCHANGED <<family_config, dismissed_alerts, nuuid, resp>>

\* seed_sample_data, the await of insert_one of the month
seed_insert(p) ==
    /\ pc[p].at = "seed_insert"
    /\ budget_months' =
           Append(budget_months,
                  SeedMonthData(pc[p].members, pc[p].categories, pc[p].i, pc[p].r))
    /\ pc' = [pc EXCEPT ![p].at = "seed_find", ![p].i = @ + 1]
    /\ UNCHANGED <<family_config, dismissed_alerts, nuuid, resp>>

----------------------------------------------------------------------------
(* The handlers run one at a time *)

Init ==
    /\ family_config = <<>>
    /\ budget_months = <<>>
    /\ dismissed_alerts = <<>>
    /\ nuuid = 0
    /\ resp = [op |-> "none", status |-> 0]
    /\ pc = Idle

\* every handler, one request at a time
Next ==
    \/ get_family_config
    \/ update_family_config
    \/ add_family_member
    \/ delete_family_member
    \/ create_month
    \/ update_month
    \/ delete_month
    \/ create_year
    \/ seed_sample_data
    \/ get_annual_summary
    \/ export_excel
    \/ get_alerts
    \/ dismiss_alert
    \/ clear_all_alerts

Spec == Init /\ [][Next]_vars

\* the handlers that write the configuration
NextConfig ==
    \/ get_family_config
    \/ update_family_config
    \/ add_family_member
    \/ delete_family_member

SpecConfig == Init /\ [][NextConfig]_vars

\* the handlers that write month documents
NextMonths ==
    \/ create_month
    \/ update_month
    \/ delete_month
    \/ create_year
    \/ seed_sample_data

SpecMonths == Init /\ [][NextMonths]_vars

\* the annual summary and the export over the stores they read
NextSummary ==
    \/ update_family_config
    \/ add_family_member
    \/ create_month
    \/ delete_month
    \/ create_year
    \/ get_annual_summary
    \/ export_excel

SpecSummary == Init /\ [][NextSummary]_vars

\* the two reports of a year over the stores they read
NextReport ==
    \/ update_family_config
    \/ create_month
    \/ create_year
    \/ get_annual_summary
    \/ export_excel

SpecReport == Init /\ [][NextReport]_vars

\* the alert feed over the stores it reads
NextAlerts ==
    \/ create_month
    \/ update_month
    \/ delete_month
    \/ get_alerts
    \/ dismiss_alert
    \/ clear_all_alerts

SpecAlerts == Init /\ [][NextAlerts]_vars

\* the handlers of concurrent requests, await by await: every slot serves
\* create_month, delete_month and GET /family-config, the slots of YearSlots
\* also the two handlers that loop over the twelve months
NextConc ==
    \/ \E p \in Slots :
        \/ cm_find(p)
        \/ cm_insert(p)
        \/ dm_delete(p)
        \/ gfc_start(p)
        \/ gfc_find(p)
        \/ gfc_insert(p)
    \/ \E p \in YearSlots :
        \/ cy_start(p)
        \/ seed_start(p)
        \/ cy_find(p)
        \/ cy_insert(p)
        \/ seed_config(p)
        \/ seed_find(p)
        \/ seed_update(p)
        \/ seed_insert(p)

SpecConc == Init /\ [][NextConc]_vars

----------------------------------------------------------------------------
(* Properties *)

\* the (year, month) pairs of the stored month documents are pairwise distinct
\* C1: after any interleaving of concurrent create_month, create_year,
\* seed_sample_data and delete_month requests, no two month documents have the
\* same (year, month).
C1_UniqueYearMonth ==
    \A i, j \in 1..Len(budget_months) :
        (budget_months[i].year = budget_months[j].year
            /\ budget_months[i].month = budget_months[j].month) => i = j

\* C2: after any sequence of configuration writes the stored members'
\* percentages sum to 100 within 0.1 (here: 1000 tenths within 1).
C2_PercentagesSumTo100 ==
    (Len(family_config) > 0 /\ "members" \in DOMAIN family_config[1]) =>
        \A ms \in { family_config[1].members } :
            LET total == SumSeq([i \in 1..Len(ms) |-> ms[i].percentage])
            IN  total >= 999 /\ total <= 1001

\* C3: every stored month document has its month in 1..12.
C3_MonthInRange ==
    \A i \in 1..Len(budget_months) : budget_months[i].month \in 1..12

\* the number of month documents the store holds for a year
RecordsOfYear(year) ==
    Cardinality({ i \in 1..Len(budget_months) : budget_months[i].year = year })

\* C8: get_annual_summary and export_excel answer 404 exactly when the store
\* holds no month document of the year, and with at least one they answer with
\* a result (200), never with an error.
C8_NoDataIffEmpty ==
    resp.op \in {"get_annual_summary", "export_excel"} =>
        /\ resp.status = 404 <=> RecordsOfYear(resp.year) = 0
        /\ RecordsOfYear(resp.year) > 0 => resp.status = 200

\* C9: a summary returned for a year with N month documents lists exactly N
\* per-month summaries in ascending month order, total_income and
\* total_expenses are the sums of the per-month values, and total_savings is
\* their difference.
C9_SummaryShape ==
    (resp.op = "get_annual_summary" /\ resp.status = 200) =>
        \A b \in { resp.body } :
            /\ Len(b.monthly_data) = RecordsOfYear(resp.year)
            /\ \A i \in 1..(Len(b.monthly_data) - 1) :
                  b.monthly_data[i].month <= b.monthly_data[i + 1].month
            /\ b.total_income = SumSeq([i \in 1..Len(b.monthly_data) |-> b.monthly_data[i].income])
            /\ b.total_expenses =
                  SumSeq([i \in 1..Len(b.monthly_data) |-> b.monthly_data[i].expenses])
            /\ \A i \in 1..Len(b.monthly_data) :
                  b.monthly_data[i].expenses =
                      b.monthly_data[i].fixed_expenses + b.monthly_data[i].variable_expenses
                          + b.monthly_data[i].category_expenses
            /\ b.total_savings = b.total_income - b.total_expenses

\* the income the year's month documents record under a member id
IncomeUnder(year, id) ==
    SumSeq([i \in 1..Len(budget_months) |->
              IF budget_months[i].year = year /\ id \in DOMAIN budget_months[i].income
              THEN budget_months[i].income[id] ELSE 0])

\* C10: in a summary returned for a year (of at most twelve month documents),
\* member_contributions has an entry for every configured member and the entry
\* equals the income the year's months record under that member's id.
C10_MemberContributions ==
    (resp.op = "get_annual_summary" /\ resp.status = 200
        /\ RecordsOfYear(resp.year) <= 12) =>
        \A ms \in { Get(family_config[1], "members", <<>>) } :
            \A k \in 1..Len(ms) :
                /\ ms[k].name \in DOMAIN resp.body.member_contributions
                /\ resp.body.member_contributions[ms[k].name] = IncomeUnder(resp.year, ms[k].id)

----------------------------------------------------------------------------
(* Properties of the alert feed, stated over the expense items of the store *)

\* every expense item of the month documents, with where it stands: the
\* position of its month document in the collection, its source (1 fixed,
\* 2 variable, 3 a category list), the position of its category list in
\* category_expenses, its position in its list, and the tag of its source
Entries(months) ==
    UNION { { [mpos |-> i, src |-> 1, cpos |-> 0, idx |-> k, tag |-> "fixed",
               exp |-> months[i].fixed_expenses[k]] :
                 k \in 1..Len(months[i].fixed_expenses) }
            \cup
            { [mpos |-> i, src |-> 2, cpos |-> 0, idx |-> k, tag |-> "variable",
               exp |-> months[i].variable_expenses[k]] :
                 k \in 1..Len(months[i].variable_expenses) }
            \cup
            UNION { { [mpos |-> i, src |-> 3, cpos |-> c, idx |-> k,
                       tag |-> months[i].category_expenses[c].cat_id,
                       exp |-> months[i].category_expenses[c].items[k]] :
                         k \in 1..Len(months[i].category_expenses[c].items) } :
                    c \in 1..Len(months[i].category_expenses) } :
            i \in 1..Len(months) }

EntryKey(months, e) ==
    AlertKey(months[e.mpos].year, months[e.mpos].month, e.tag, e.exp.name)

\* actual > budget > 0
EntryOver(e) == e.exp.actual > e.exp.budget /\ e.exp.budget > 0

LoggedKeys == { dismissed_alerts[i].alert_key : i \in 1..Len(dismissed_alerts) }

\* the over-budget items whose key is not dismissed
ActiveEntries ==
    { e \in Entries(budget_months) :
        EntryOver(e) /\ EntryKey(budget_months, e) \notin LoggedKeys }

\* alert a is the alert of item e
AlertOf(a, e) ==
    /\ a.alert_key = EntryKey(budget_months, e)
    /\ a.item_name = e.exp.name
    /\ a.budget = e.exp.budget
    /\ a.actual = e.exp.actual
    /\ a.overage = e.exp.actual - e.exp.budget
    /\ a.year = budget_months[e.mpos].year
    /\ a.month_num = budget_months[e.mpos].month

\* what get_alerts would return in the current state
AlertsNow ==
    Alerts(budget_months, GfcConfig(family_config, nuuid), dismissed_alerts)

EncounteredBefore(u, e) ==
    \/ u.mpos < e.mpos
    \/ u.mpos = e.mpos /\ u.src < e.src
    \/ u.mpos = e.mpos /\ u.src = e.src /\ u.cpos < e.cpos
    \/ u.mpos = e.mpos /\ u.src = e.src /\ u.cpos = e.cpos /\ u.idx < e.idx

\* the order the claim words: source first, then the place in the list, then
\* the month
SourceFirstBefore(u, e) ==
    \/ u.src < e.src
    \/ u.src = e.src /\ u.cpos < e.cpos
    \/ u.src = e.src /\ u.cpos = e.cpos /\ u.idx < e.idx
    \/ u.src = e.src /\ u.cpos = e.cpos /\ u.idx = e.idx /\ u.mpos < e.mpos

Overage(e) == e.exp.actual - e.exp.budget

C7_ClearAppendsNewKeysOnce ==
    [][ (resp'.op = "clear_all_alerts") =>
            \A old \in { dismissed_alerts }, new \in { dismissed_alerts' },
               es \in { Entries(budget_months) } :
                LET logged == { old[i].alert_key : i \in 1..Len(old) }
                    added == { new[i].alert_key : i \in (Len(old) + 1)..Len(new) }
                IN  /\ Len(new) >= Len(old)
                    /\ SubSeq(new, 1, Len(old)) = old
                    /\ added = { EntryKey(budget_months, e) : e \in { x \in es : EntryOver(x) } }
                                  \ logged
                    /\ Cardinality(added) = Len(new) - Len(old)
                    /\ resp'.dismissed_count = Len(new) - Len(old) ]_vars

\* clear_all_alerts has reported 2 for three over-budget items of which one was
\* dismissed before
C7_Witness ==
    /\ resp.op = "clear_all_alerts"
    /\ resp.dismissed_count = 2
    /\ Len(dismissed_alerts) = 3
    /\ Cardinality({ e \in Entries(budget_months) : EntryOver(e) }) = 3
    /\ \E e \in Entries(budget_months) :
          EntryOver(e) /\ EntryKey(budget_months, e) = dismissed_alerts[1].alert_key

----------------------------------------------------------------------------
(* Properties of expense_by_category, stated over the items of the listed months *)

\* the name the configuration gives a category id, "Otros" when it has none
ConfiguredName(cfg, cat_id) ==
    LET cs == Get(cfg, "categories", <<>>)
    IN  IF \E k \in 1..Len(cs) : cs[k].id = cat_id
        THEN cs[CHOOSE k \in 1..Len(cs) : cs[k].id = cat_id].name
        ELSE "Otros"

\* the display label of an expense item: the category name for an item of a
\* category list, the item's own name for a fixed or variable item
EntryLabel(cfg, e) == IF e.src = 3 THEN ConfiguredName(cfg, e.tag) ELSE e.exp.name

RECURSIVE SumActualOf(_)
\* the sum of the actuals of a set of items
SumActualOf(es) ==
    IF es = {} THEN 0
    ELSE LET e == CHOOSE x \in es : TRUE
         IN  e.exp.actual + SumActualOf(es \ {e})

\* the labels of the category lists of the listed months, empty lists included
CategoryLabels(cfg, ms) ==
    UNION { { ConfiguredName(cfg, ms[i].category_expenses[c].cat_id) :
                c \in 1..Len(ms[i].category_expenses) } : i \in 1..Len(ms) }

\* C11: expense_by_category of a summary has one entry per display label (the
\* configured name of each category id or "Otros", and the name of each fixed and
\* variable item) and the entry is the sum of the actuals of all the items under
\* that label, whatever their source.
C11_ExpenseByCategoryMerged ==
    (resp.op = "get_annual_summary" /\ resp.status = 200) =>
        \A ebc \in { resp.body.expense_by_category }, cfg \in { family_config[1] },
           ms \in { YearMonths(budget_months, resp.year) } :
            \A es \in { Entries(ms) } :
                /\ DOMAIN ebc = { EntryLabel(cfg, e) : e \in es } \cup CategoryLabels(cfg, ms)
                /\ \A label \in DOMAIN ebc :
                      ebc[label] = SumActualOf({ e \in es : EntryLabel(cfg, e) = label })

\* a summary holds a label under which a fixed item and a category list are
\* merged, and the label "Otros" of a category id the configuration lacks
C11_Witness ==
    /\ resp.op = "get_annual_summary"
    /\ resp.status = 200
    /\ "Otros" \in DOMAIN resp.body.expense_by_category
    /\ \E e \in Entries(YearMonths(budget_months, resp.year)),
          u \in Entries(YearMonths(budget_months, resp.year)) :
          /\ e.src = 1 /\ u.src = 3 /\ u.exp.actual > 0
          /\ EntryLabel(family_config[1], u) = e.exp.name
          /\ resp.body.expense_by_category[e.exp.name] >= e.exp.actual + u.exp.actual

----------------------------------------------------------------------------
(* The export against the summary *)

\* row of the export and per-month summary carry the same figures
SameFigures(row, summary) ==
    /\ row.month_name = summary.month_name
    /\ row.income = summary.income
    /\ row.total_exp = summary.expenses
    /\ row.savings = summary.savings

\* C12: the rows export_excel writes and the per-month summaries
\* get_annual_summary computes for the same year of the same store agree record
\* by record (income, total expenses, savings), in the same ascending order of
\* month.
C12_ExportMatchesSummary ==
    /\ (resp.op = "export_excel" /\ resp.status = 200) =>
          \A rows \in { resp.body }, ms \in { YearMonths(budget_months, resp.year) } :
              /\ Len(rows) = Len(ms)
              /\ \A i \in 1..Len(ms) : SameFigures(rows[i], MonthSummary(ms[i]))
              /\ \A i \in 1..(Len(ms) - 1) : ms[i].month <= ms[i + 1].month
    /\ (resp.op = "get_annual_summary" /\ resp.status = 200) =>
          \A sums \in { resp.body.monthly_data },
             rows \in { ExcelRows(YearMonths(budget_months, resp.year)) } :
              /\ Len(rows) = Len(sums)
              /\ \A i \in 1..Len(sums) : SameFigures(rows[i], sums[i])
              /\ \A i \in 1..(Len(sums) - 1) : sums[i].month <= sums[i + 1].month

\* the export has written rows for months stored out of order, one of them with
\* spending in a category list and negative savings
C12_Witness ==
    /\ resp.op = "export_excel"
    /\ resp.status = 200
    /\ Len(resp.body) >= 2
    /\ \E i \in 1..(Len(budget_months) - 1) :
          /\ budget_months[i].year = resp.year
          /\ budget_months[i + 1].year = resp.year
          /\ budget_months[i].month > budget_months[i + 1].month
    /\ \E i \in 1..Len(resp.body) : resp.body[i].savings < 0
    /\ \E e \in Entries(YearMonths(budget_months, resp.year)) :
          e.src = 3 /\ e.exp.actual > 0

----------------------------------------------------------------------------
(* update_month as a partial update *)

\* a stored list of items holds the items sent, in order
SameItems(stored, sent) ==
    /\ Len(stored) = Len(sent)
    /\ \A i \in 1..Len(sent) :
          /\ stored[i].name = sent[i].name
          /\ stored[i].budget = Get(sent[i], "budget", 0)
          /\ stored[i].actual = Get(sent[i], "actual", 0)

\* the stored value of a field is the value sent for it
SameField(f, stored, sent) ==
    CASE f \in {"fixed_expenses", "variable_expenses"} -> SameItems(stored, sent)
      [] f = "category_expenses" ->
            /\ Len(stored) = Len(sent)
            /\ \A c \in 1..Len(sent) :
                  /\ stored[c].cat_id = sent[c].cat_id
                  /\ SameItems(stored[c].items, sent[c].items)
      [] OTHER -> stored = sent

\* C13: a step of update_month on an absent (year, month) answers 404 and leaves
\* the store as it was; on an existing one it answers 200 and changes one record
\* of that (year, month) only, in which the fields of the request hold the values
\* sent and every other field but updated_at is as before.
C13_PartialUpdate ==
    [][ resp'.op = "update_month" =>
          \A old \in { budget_months }, new \in { budget_months' }, rq \in { resp' } :
              /\ UNCHANGED <<family_config, dismissed_alerts>>
              /\ IF \A i \in 1..Len(old) : ~(old[i].year = rq.year /\ old[i].month = rq.month)
                 THEN rq.status = 404 /\ new = old
                 ELSE /\ rq.status = 200
                      /\ Len(new) = Len(old)
                      /\ \E k \in 1..Len(old) :
                            /\ old[k].year = rq.year /\ old[k].month = rq.month
                            /\ \A i \in 1..Len(old) : i # k => new[i] = old[i]
                            /\ DOMAIN new[k] =
                                  DOMAIN old[k] \cup DOMAIN rq.req \cup {"updated_at"}
                            /\ \A f \in DOMAIN new[k] :
                                  IF f \in DOMAIN rq.req
                                  THEN SameField(f, new[k][f], rq.req[f])
                                  ELSE f = "updated_at" \/ new[k][f] = old[k][f] ]_vars

\* update_month has replaced the variable expenses of a record that keeps its
\* fixed expenses and category lists, next to another record
C13_Witness ==
    /\ resp.op = "update_month"
    /\ resp.status = 200
    /\ "fixed_expenses" \notin DOMAIN resp.req
    /\ Len(resp.body.fixed_expenses) > 0
    /\ Len(resp.body.category_expenses) > 0
    /\ SameItems(resp.body.variable_expenses, resp.req.variable_expenses)
    /\ \E i \in 1..Len(budget_months) : budget_months[i].month # resp.month

----------------------------------------------------------------------------
(* The configuration as a singleton *)

\* the ids of the members, categories and accounts of a configuration
ConfigIds(config) ==
    [f \in {"members", "categories", "bank_accounts"} |->
        [k \in 1..Len(Get(config, f, <<>>)) |-> Get(config, f, <<>>)[k].id]]

\* C14: under any interleaving of concurrent requests on an initially empty
\* store, the store never holds more than one configuration document and a
\* GET /family-config answers the stored configuration (same member, category
\* and account ids).
C14_ConfigSingleton ==
    /\ Len(family_config) <= 1
    /\ resp.op = "get_family_config" =>
          /\ Len(family_config) = 1
          /\ ConfigIds(resp.body) = ConfigIds(family_config[1])

----------------------------------------------------------------------------
(* The alert feed after clear_all_alerts *)

\* the requests that neither create nor update a month document
NoMonthWrite == {"get_alerts", "dismiss_alert", "clear_all_alerts", "delete_month"}

====
